---- MODULE Spec2Model ----
(***************************************************************************)
(* analytic_power(n, maf, beta, p_thr, sigma=1.0) of the power-curve       *)
(* notebook (src/.ipynb_checkpoints/simulation-checkpoint.ipynb, code cell *)
(* c8cdb9b2, lines 70-75), as a state machine: one call at a time, one     *)
(* step per source line.                                                   *)
(*                                                                         *)
(* Numbers.  The notebook computes in float64.  The model computes in      *)
(* fixed point and keeps the float64 special values:                       *)
(*   - maf, beta, sigma and every z value (z_cut, ncp, the arguments of    *)
(*     sf and cdf) are counted in hundredths (Scale);                      *)
(*   - var_g and n * var_g are counted in 1/Scale^2;                       *)
(*   - a probability is a pair hi, lo standing for hi * Base + lo in units *)
(*     of 10^-18 (two limbs: TLC's integers are 32 bits wide);             *)
(*   - a z value is a record [k, v]: k = "fin" (v hundredths), "inf"       *)
(*     (v = 1 or -1) or "nan"; a probability is [k, hi, lo], k = "fin" or  *)
(*     "nan".                                                              *)
(* scipy's stats.norm.sf / cdf / isf are library code: they are modelled   *)
(* by the standard normal upper tail tabulated to 18 decimals at every     *)
(* hundredth (SFTable), not by an identity.                                *)
(***************************************************************************)
EXTENDS Integers, Sequences, FiniteSets, TLC

VARIABLES
    pc,           \* "idle", "L72", "L73", "L74", "L75", "done": the line about to run
    n,            \* argument n (a count)
    maf,          \* argument maf, hundredths
    beta,         \* argument beta, hundredths
    p_thr,        \* argument p_thr, a probability
    sigma,        \* parameter sigma, hundredths (the default when omitted)
    sigma_given,  \* whether the caller passed sigma
    z_cut,        \* local z_cut (line 72)
    var_g,        \* local var_g (line 73)
    ncp,          \* local ncp (line 74)
    ret,          \* what the call produced: [outcome, value]
    glob,         \* the notebook's module-level n and p_thr (lines 86-87)
    frames,       \* concurrent calls: each thread's frame of analytic_power
    cell,         \* the sweep cell running: "none", "effect", "between", "maf", "end"
    pos,          \* the position of the running list comprehension in its grid
    beta_grid,    \* line 91
    power_effect, \* line 92
    maf_grid,     \* line 113
    power_maf     \* line 114

\* the frame of the single call
frame == <<pc, n, maf, beta, p_thr, sigma, sigma_given, z_cut, var_g, ncp, ret>>

\* the state of the concurrent calls
threads == <<glob, frames>>

\* the state of the two sweep cells
sweep == <<cell, pos, beta_grid, power_effect, maf_grid, power_maf>>

vars == <<frame, threads, sweep>>

-----------------------------------------------------------------------------
(* Units *)

Scale == 10^2

Base == 10^9

-----------------------------------------------------------------------------
(* float64 values on the z scale: finite, +-inf, nan *)

Fin(v) == [k |-> "fin", v |-> v]

PosInf == [k |-> "inf", v |-> 1]

NegInf == [k |-> "inf", v |-> -1]

NaN == [k |-> "nan", v |-> 0]

Unset == [k |-> "unset", v |-> 0]

\* -x
ENeg(x) == IF x.k = "nan" THEN NaN ELSE [k |-> x.k, v |-> -x.v]

\* x - y, IEEE 754: nan propagates, inf - inf = nan
ESub(x, y) ==
    IF x.k = "nan" \/ y.k = "nan" THEN NaN
    ELSE IF x.k = "fin" /\ y.k = "fin" THEN Fin(x.v - y.v)
    ELSE IF y.k = "fin" THEN x
    ELSE IF x.k = "fin" THEN ENeg(y)
    ELSE IF x.v = y.v THEN NaN
    ELSE x

\* a / b rounded to the nearest integer, halves away from zero (b > 0):
\* the rounding is the same for a and -a, as float64's is
RoundDivPos(a, b) ==
    IF a >= 0 THEN (2 * a + b) \div (2 * b) ELSE -((2 * (-a) + b) \div (2 * b))

RoundDiv(a, b) == IF b > 0 THEN RoundDivPos(a, b) ELSE RoundDivPos(-a, -b)

\* x / s for x in 1/(10 * Scale^2) and s in hundredths, the quotient in hundredths;
\* numpy float64 division: x/0 is +-inf, 0/0 is nan, no exception
FDiv(x, s) ==
    IF x.k = "nan" THEN NaN
    ELSE IF s = 0 THEN (IF x.v = 0 THEN NaN ELSE IF x.v > 0 THEN PosInf ELSE NegInf)
    ELSE Fin(RoundDiv(x.v, 10 * s))

\* b * x for b in hundredths: nan propagates
FMul(b, x) == IF x.k = "nan" THEN NaN ELSE Fin(b * x.v)

RECURSIVE SqrtSearch(_, _, _)
\* the largest r in lo..hi with r * r <= x
SqrtSearch(x, lo, hi) ==
    IF lo = hi THEN lo
    ELSE LET mid == (lo + hi + 1) \div 2
         IN  IF mid * mid <= x THEN SqrtSearch(x, mid, hi)
             ELSE SqrtSearch(x, lo, mid - 1)

\* np.sqrt(x) for x in 1/Scale^2, the root in 1/(10*Scale); nan for x < 0
np_sqrt(x) == IF x < 0 THEN NaN ELSE Fin(SqrtSearch(x * Scale, 0, 46340))

-----------------------------------------------------------------------------
(* Probabilities: hi * Base + lo in units of 10^-18 *)

P(hi, lo) == [k |-> "fin", hi |-> hi, lo |-> lo]

PNaN == [k |-> "nan", hi |-> 0, lo |-> 0]

PZero == P(0, 0)

POne == P(Base, 0)

PLe(a, b) == a.hi < b.hi \/ (a.hi = b.hi /\ a.lo <= b.lo)

PLt(a, b) == a.hi < b.hi \/ (a.hi = b.hi /\ a.lo < b.lo)

PAdd(a, b) ==
    IF a.k = "nan" \/ b.k = "nan" THEN PNaN
    ELSE LET lo == a.lo + b.lo
         IN  P(a.hi + b.hi + (lo \div Base), lo % Base)

PSub(a, b) ==
    IF a.k = "nan" \/ b.k = "nan" THEN PNaN
    ELSE LET lo == a.lo - b.lo
         IN  IF lo < 0 THEN P(a.hi - b.hi - 1, lo + Base) ELSE P(a.hi - b.hi, lo)

\* a / 2.0 (exact in float64; exact here when a is an even number of units)
PHalf(a) == P(a.hi \div 2, (a.lo + (a.hi % 2) * Base) \div 2)

\* |a - b|
PDist(a, b) == IF PLe(a, b) THEN PSub(b, a) ELSE PSub(a, b)

-----------------------------------------------------------------------------
(* The standard normal distribution (scipy.stats.norm) *)

\* SFTable[i + 1] = 1 - Phi(i / 100) rounded to 18 decimals, as <<hi, lo>>,
\* for i = 0 .. 884; the tail is below 5 * 10^-19 from 8.84 on.
SFTable ==
   <<
      <<500000000, 0>>, <<496010643, 685368396>>, <<492021686, 283098019>>, <<488033526, 585887355>>,
      <<484046563, 147169239>>, <<480061194, 161627538>>, <<476077817, 345893156>>, <<472096829, 819478896>>,
      <<468118627, 986012623>>, <<464143607, 414827893>>, <<460172162, 722971019>>, <<456204687, 457683214>>,
      <<452241573, 979416149>>, <<448283213, 345438861>>, <<444329995, 194093571>>, <<440382307, 629757482>>,
      <<436440537, 108567164>>, <<432505068, 324961583>>, <<428576284, 99099276>>, <<424654565, 265204552>>,
      <<420740290, 560896977>>, <<416833836, 517557688>>, <<412935577, 351785391>>, <<409045884, 857994134>>,
      <<405165128, 302204153>>, <<401293674, 317076276>>, <<397431886, 798239498>>, <<393580126, 801960485>>,
      <<389738752, 444202790>>, <<385908118, 801122668>>, <<382088577, 811047363>>, <<378280478, 177980721>>,
      <<374484165, 276679981>>, <<370699981, 59346479>>, <<366928263, 963971945>>, <<363169348, 824380929>>,
      <<359423566, 782008758>>, <<355691245, 199453249>>, <<351972707, 575837220>>, <<348268273, 464017614>>,
      <<344578258, 389675833>>, <<340902973, 772322613>>, <<337242726, 848249494>>, <<333597820, 595457671>>,
      <<329968553, 660593672>>, <<326355220, 287920026>>, <<322758110, 250347703>>, <<319177508, 782555805>>,
      <<315613696, 516222588>>, <<312066949, 417390546>>, <<308537538, 725986896>>, <<305025730, 897519417>>,
      <<301531787, 546966196>>, <<298055965, 394876430>>, <<294598516, 215698034>>, <<291159686, 788346373>>,
      <<287739718, 849027035>>, <<284338849, 46324154>>, <<280957308, 898564339>>, <<277595324, 753464898>>,
      <<274253117, 750073580>>, <<270930903, 783005698>>, <<267628893, 468983030>>, <<264347292, 115677547>>,
      <<261086299, 692861590>>, <<257846110, 805864725>>, <<254626914, 671336148>>, <<251428895, 95310114>>,
      <<248252230, 453570529>>, <<245097093, 674309458>>, <<241963652, 223073015>>, <<238852068, 89986722>>,
      <<235762497, 779251164>>, <<232695092, 300897431>>, <<229649997, 164790598>>, <<226627352, 376868199>>,
      <<223627292, 437599434>>, <<220649946, 342649611>>, <<217695437, 585733131>>, <<214763884, 163637120>>,
      <<211855398, 583396686>>, <<208970087, 871601593>>, <<206108053, 585813080>>, <<203269391, 828068404>>,
      <<200454193, 260449661>>, <<197662543, 122692381>>, <<194894521, 251808354>>, <<192150202, 103696194>>,
      <<189429654, 776712129>>, <<186732943, 37172625>>, <<184060125, 346759489>>, <<181411254, 891797243>>,
      <<178786379, 614371713>>, <<176185542, 245257914>>, <<173608780, 338624572>>, <<171056126, 308481808>>,
      <<168527607, 466837813>>, <<166023246, 63529609>>, <<163543059, 327692346>>, <<161087059, 510830911>>,
      <<158655253, 931457051>>, <<156247645, 21254598>>, <<153864230, 372734856>>, <<151505002, 788343699>>,
      <<149169950, 330981420>>, <<146859056, 375895945>>, <<144572299, 663909604>>, <<142309654, 355939230>>,
      <<140071090, 88769053>>, <<137856572, 32035493>>, <<135666060, 946382675>>, <<133499513, 242747229>>,
      <<131356881, 42730717>>, <<129238112, 240017821>>, <<127143150, 562798257>>, <<125071935, 637150261>>,
      <<123024403, 51343377>>, <<121000484, 421018200>>, <<119000107, 455200700>>, <<117023196, 23108719>>,
      <<115069670, 221708268>>, <<113139446, 443977288>>, <<111232437, 447834605>>, <<109348552, 425691938>>,
      <<107487697, 74586918>>, <<105649773, 666855258>>, <<103834681, 121300398>>, <<102042315, 74819146>>,
      <<100272567, 954442093>>, <<98525329, 49747835>>, <<96800484, 585610333>>, <<95097917, 795239044>>,
      <<93417508, 993471808>>, <<91759135, 650280826>>, <<90122672, 464452469>>, <<88507991, 437402034>>,
      <<86914961, 947085028>>, <<85343450, 821966978>>, <<83793322, 415014262>>, <<82264438, 677668940>>,
      <<80756659, 233771046>>, <<79269841, 453392391>>, <<77803840, 526546394>>, <<76358509, 536739096>>,
      <<74933699, 534327046>>, <<73529259, 609648347>>, <<72145036, 965893779>>, <<70780876, 991685534>>,
      <<69436623, 333331718>>, <<68112117, 966725454>>, <<66807201, 268858066>>, <<65521712, 88916501>>,
      <<64255487, 818935837>>, <<63008364, 463978425>>, <<61780176, 711811896>>, <<60570758, 2059011>>,
      <<59379940, 594793031>>, <<58207555, 638553020>>, <<57053433, 237754224>>, <<55917402, 519469442>>,
      <<54799291, 699557994>>, <<53698928, 148119707>>, <<52616138, 454252056>>, <<51550748, 490089359>>,
      <<50502583, 474103714>>, <<49471468, 33648096>>, <<48457226, 266722818>>, <<47459681, 802947324>>,
      <<46478657, 863720045>>, <<45513977, 321549801>>, <<44565462, 758543039>>, <<43632936, 524031904>>,
      <<42716220, 791328936>>, <<41815137, 613594948>>, <<40929508, 978807367>>, <<40059156, 863817090>>,
      <<39203903, 287482652>>, <<38363570, 362871234>>, <<37537980, 348516793>>, <<36726955, 698726298>>,
      <<35930319, 112925804>>, <<35147893, 584038803>>, <<34379502, 445889997>>, <<33624969, 419628338>>,
      <<32884118, 659163888>>, <<32156774, 795613711>>, <<31442762, 980752709>>, <<30741908, 929465960>>,
      <<30054038, 961199787>>, <<29378980, 40409427>>, <<28716559, 816001799>>, <<28066606, 659772507>>,
      <<27428949, 703836818>>, <<26803418, 877054961>>, <<26189844, 940452692>>, <<25588059, 521638625>>,
      <<24997895, 148220434>>, <<24419185, 280222546>>, <<23851764, 341508521>>, <<23295467, 750211822>>,
      <<22750131, 948179207>>, <<22215594, 429431475>>, <<21691693, 767646786>>, <<21178269, 642672267>>,
      <<20675162, 866070054>>, <<20182215, 405704401>>, <<19699270, 409376899>>, <<19226172, 227517290>>,
      <<18762766, 434937754>>, <<18308899, 851658962>>, <<17864420, 562816557>>, <<17429177, 937657088>>,
      <<17003022, 647632802>>, <<16585806, 683605013>>, <<16177383, 372166098>>, <<15777607, 391090509>>,
      <<15386334, 783925453>>, <<15003422, 973732202>>, <<14628730, 775989261>>, <<14262118, 410668874>>,
      <<13903447, 513498611>>, <<13552581, 146419982>>, <<13209383, 807256281>>, <<12873721, 438602022>>,
      <<12545461, 435946568>>, <<12224472, 655044703>>, <<11910625, 418547065>>, <<11603791, 521903535>>,
      <<11303844, 238552793>>, <<11010658, 324411388>>, <<10724110, 21675805>>, <<10444077, 61951087>>,
      <<10170438, 668719677>>, <<9903075, 559164252>>, <<9641869, 945358333>>, <<9386705, 534838577>>,
      <<9137467, 530572671>>, <<8894042, 630336777>>, <<8656319, 25516548>>, <<8424186, 399345692>>,
      <<8197535, 924596129>>, <<7976260, 260733730>>, <<7760253, 550553644>>, <<7549411, 416309208>>,
      <<7343630, 955348347>>, <<7142810, 735271419>>, <<6946850, 788624315>>, <<6755652, 607140651>>,
      <<6569119, 135546763>>, <<6387154, 764943177>>, <<6209665, 325776135>>, <<6036558, 80412660>>,
      <<5867741, 715332564>>, <<5703126, 332950696>>, <<5542623, 443082604>>, <<5386145, 954066688>>,
      <<5233608, 163555789>>, <<5084925, 748991038>>, <<4940015, 757770646>>, <<4798796, 597126181>>,
      <<4661188, 23718750>>, <<4527111, 132967323>>, <<4396488, 348121313>>, <<4269243, 409089351>>,
      <<4145301, 361036041>>, <<4024588, 542758308>>, <<3907032, 574852779>>, <<3792562, 347685489>>,
      <<3681108, 9174982>>, <<3572600, 952399739>>, <<3466973, 803040668>>, <<3364160, 406669193>>,
      <<3264095, 815891312>>, <<3166716, 277357795>>, <<3071959, 218650493>>, <<2979763, 235054557>>,
      <<2890068, 76226146>>, <<2802814, 632765028>>, <<2717944, 922701259>>, <<2635402, 77904953>>,
      <<2555130, 330427933>>, <<2477074, 998785862>>, <<2401182, 474189252>>, <<2327400, 206731554>>,
      <<2255676, 691542323>>, <<2185961, 454913241>>, <<2118205, 40404620>>, <<2052358, 994939754>>,
      <<1988375, 854894325>>, <<1926209, 132187861>>, <<1865813, 300384038>>, <<1807143, 780806429>>,
      <<1750156, 928676100>>, <<1694810, 19277262>>, <<1641061, 234156997>>, <<1588869, 647364868>>,
      <<1538195, 211738059>>, <<1488998, 745237466>>, <<1441241, 917340015>>, <<1394887, 235492250>>,
      <<1349898, 31630095>>, <<1306238, 448769468>>, <<1263873, 427672298>>, <<1222768, 693592260>>,
      <<1182890, 743104407>>, <<1144206, 831022699>>, <<1106684, 957409247>>, <<1070293, 854678924>>,
      <<1035002, 974802842>>, <<1000782, 476614010>>, <<967603, 213218357>>, <<935436, 719514100>>,
      <<904255, 199822340>>, <<874031, 515631567>>, <<844739, 173458627>>, <<816352, 312828562>>,
      <<788845, 694375573>>, <<762194, 688067235>>, <<736375, 261553931>>, <<711363, 968645364>>,
      <<687137, 937915848>>, <<663674, 861439968>>, <<640952, 983660056>>, <<618951, 90386835>>,
      <<597648, 497934416>>, <<577025, 42390767>>, <<557061, 69024622>>, <<537737, 421829695>>,
      <<519035, 433206973>>, <<500936, 913785722>>, <<483424, 142383777>>, <<466479, 856107549>>,
      <<450087, 240592117>>, <<434229, 920381655>>, <<418891, 949450370>>, <<404057, 801864021>>,
      <<389712, 362582032>>, <<375840, 918400083>>, <<362429, 149033044>>, <<349463, 118337971>>,
      <<336929, 265676881>>, <<324814, 397418878>>, <<313105, 678581200>>, <<301790, 624608637>>,
      <<290857, 93290743>>, <<280293, 276816177>>, <<270087, 693963475>>, <<260229, 182427467>>,
      <<250706, 891280538>>, <<241510, 273567836>>, <<232629, 79035525>>, <<224053, 346991093>>,
      <<215773, 399294718>>, <<207779, 833480621>>, <<200063, 516007320>>, <<192615, 575635633>>,
      <<185427, 396933278>>, <<178490, 613904847>>, <<171797, 103745931>>, <<165338, 980720110>>,
      <<159108, 590157534>>, <<153098, 502573755>>, <<147301, 507907473>>, <<141710, 609875819>>,
      <<136319, 20445802>>, <<131120, 154420485>>, <<126107, 624138487>>, <<121275, 234285358>>,
      <<116616, 976815368>>, <<112127, 25982247>>, <<107799, 733477388>>, <<103629, 623674031>>,
      <<99611, 388975917>>, <<95739, 885268914>>, <<92010, 127474106>>, <<88417, 285200804>>,
      <<84956, 678497998>>, <<81623, 773702686>>, <<78414, 179383585>>, <<75323, 642378683>>,
      <<72348, 43925120>>, <<69483, 395879865>>, <<66725, 837029685>>, <<64071, 629488875>>,
      <<61517, 155183255>>, <<59058, 912418923>>, <<56693, 512534257>>, <<54417, 676633700>>,
      <<52228, 232401820>>, <<50122, 110996188>>, <<48096, 344017603>>, <<46148, 60556209>>,
      <<44274, 484312071>>, <<42472, 930788761>>, <<40740, 804558551>>, <<39075, 596597788>>,
      <<37474, 881691073>>, <<35936, 315902854>>, <<34457, 634115053>>, <<33036, 647629402>>,
      <<31671, 241833120>>, <<30359, 373926618>>, <<29099, 70711931>>, <<27888, 426440564>>,
      <<26725, 600719492>>, <<25608, 816474041>>, <<24536, 357966410>>, <<23506, 568868596>>,
      <<22517, 850388525>>, <<21568, 659448181>>, <<20657, 506912547>>, <<19782, 955868224>>,
      <<18943, 619950553>>, <<18138, 161718131>>, <<17365, 291073604>>, <<16623, 763729652>>,
      <<15912, 379719082>>, <<15229, 981947978>>, <<14575, 454790867>>, <<13947, 722726881>>,
      <<13345, 749015906>>, <<12768, 534413735>>, <<12215, 115925253>>, <<11684, 565594707>>,
      <<11175, 989332121>>, <<10688, 525774934>>, <<10221, 345183984>>, <<9773, 648372918>>,
      <<9344, 665670196>>, <<8933, 655912827>>, <<8539, 905470992>>, <<8162, 727302763>>,
      <<7801, 460038101>>, <<7455, 467091355>>, <<7124, 135801495>>, <<6806, 876599334>>,
      <<6503, 122200993>>, <<6212, 326826902>>, <<5933, 965445625>>, <<5667, 533041827>>,
      <<5412, 543907704>>, <<5168, 530957224>>, <<4935, 45062533>>, <<4711, 654411897>>,
      <<4497, 943888568>>, <<4293, 514469972>>, <<4097, 982646636>>, <<3910, 979860281>>,
      <<3732, 151960514>>, <<3561, 158679598>>, <<3397, 673124730>>, <<3241, 381287353>>,
      <<3091, 981568956>>, <<2949, 184322892>>, <<2812, 711411724>>, <<2682, 295779639>>,
      <<2557, 681039452>>, <<2438, 621073779>>, <<2324, 879649934>>, <<2216, 230048118>>,
      <<2112, 454702503>>, <<2013, 344854809>>, <<1918, 700219971>>, <<1828, 328663524>>,
      <<1742, 45890345>>, <<1659, 675144371>>, <<1581, 46918971>>, <<1505, 998677596>>,
      <<1434, 374584420>>, <<1366, 25244606>>, <<1300, 807453917>>, <<1238, 583957352>>,
      <<1179, 223216516>>, <<1122, 599185436>>, <<1068, 591094546>>, <<1017, 83242569>>,
      <<967, 964796033>>, <<921, 129596167>>, <<876, 475972929>>, <<833, 906565923>>,
      <<793, 328151976>>, <<754, 651479146>>, <<717, 791106947>>, <<682, 665252562>>,
      <<649, 195642861>>, <<617, 307372009>>, <<586, 928764467>>, <<557, 991243210>>,
      <<530, 429202975>>, <<504, 179888358>>, <<479, 183276590>>, <<455, 381964841>>,
      <<432, 721061862>>, <<411, 148083844>>, <<390, 612854318>>, <<371, 67407963>>,
      <<352, 465898176>>, <<334, 764508274>>, <<317, 921366185>>, <<301, 896462521>>,
      <<286, 651571879>>, <<272, 150177286>>, <<258, 357397640>>, <<245, 239918065>>,
      <<232, 765923049>>, <<220, 905032270>>, <<209, 628239018>>, <<198, 907851104>>,
      <<188, 717434158>>, <<179, 31757250>>, <<169, 826740715>>, <<161, 79406122>>,
      <<152, 767828295>>, <<144, 871089303>>, <<137, 369234358>>, <<130, 243229533>>,
      <<123, 474921237>>, <<117, 46997373>>, <<110, 942950126>>, <<105, 147040304>>,
      <<99, 644263169>>, <<94, 420315724>>, <<89, 461565363>>, <<84, 755019857>>,
      <<80, 288298615>>, <<76, 49605165>>, <<72, 27700810>>, <<68, 211879412>>,
      <<64, 591943260>>, <<61, 158179972>>, <<57, 901340400>>, <<54, 812617481>>,
      <<51, 883626018>>, <<49, 106383331>>, <<46, 473290753>>, <<43, 977115940>>,
      <<41, 610975950>>, <<39, 368321071>>, <<37, 242919359>>, <<35, 228841860>>,
      <<33, 320448485>>, <<31, 512374517>>, <<29, 799517711>>, <<28, 177025976>>,
      <<26, 640285610>>, <<25, 184910054>>, <<23, 806729163>>, <<22, 501778948>>,
      <<21, 266291798>>, <<20, 96687128>>, <<18, 989562466>>, <<17, 941684936>>,
      <<16, 949983137>>, <<16, 11539388>>, <<15, 123582336>>, <<14, 283479894>>,
      <<13, 488732515>>, <<12, 736966771>>, <<12, 25929230>>, <<11, 353480619>>,
      <<10, 717590258>>, <<10, 116330756>>, <<9, 547872948>>, <<9, 10481081>>,
      <<8, 502508215>>, <<8, 22391851>>, <<7, 568649752>>, <<7, 139875979>>,
      <<6, 734737102>>, <<6, 351968593>>, <<5, 990371401>>, <<5, 648808676>>,
      <<5, 326202659>>, <<5, 21531725>>, <<4, 733827554>>, <<4, 462172454>>,
      <<4, 205696805>>, <<3, 963576627>>, <<3, 735031270>>, <<3, 519321215>>,
      <<3, 315745978>>, <<3, 123642124>>, <<2, 942381371>>, <<2, 771368794>>,
      <<2, 610041112>>, <<2, 457865062>>, <<2, 314335853>>, <<2, 178975696>>,
      <<2, 51332411>>, <<1, 930978094>>, <<1, 817507863>>, <<1, 710538656>>,
      <<1, 609708093>>, <<1, 514673402>>, <<1, 425110384>>, <<1, 340712444>>,
      <<1, 261189667>>, <<1, 186267936>>, <<1, 115688101>>, <<1, 49205188>>,
      <<0, 986587645>>, <<0, 927616635>>, <<0, 872085354>>, <<0, 819798396>>,
      <<0, 770571138>>, <<0, 724229171>>, <<0, 680607743>>, <<0, 639551250>>,
      <<0, 600912738>>, <<0, 564553439>>, <<0, 530342326>>, <<0, 498155700>>,
      <<0, 467876787>>, <<0, 439395365>>, <<0, 412607404>>, <<0, 387414735>>,
      <<0, 363724721>>, <<0, 341449964>>, <<0, 320508008>>, <<0, 300821075>>,
      <<0, 282315804>>, <<0, 264923007>>, <<0, 248577441>>, <<0, 233217587>>,
      <<0, 218785447>>, <<0, 205226343>>, <<0, 192488736>>, <<0, 180524053>>,
      <<0, 169286515>>, <<0, 158732986>>, <<0, 148822822>>, <<0, 139517734>>,
      <<0, 130781651>>, <<0, 122580600>>, <<0, 114882581>>, <<0, 107657464>>,
      <<0, 100876875>>, <<0, 94514100>>, <<0, 88543992>>, <<0, 82942877>>,
      <<0, 77688476>>, <<0, 72759818>>, <<0, 68137173>>, <<0, 63801973>>,
      <<0, 59736751>>, <<0, 55925076>>, <<0, 52351491>>, <<0, 49001459>>,
      <<0, 45861309>>, <<0, 42918187>>, <<0, 40160006>>, <<0, 37575403>>,
      <<0, 35153696>>, <<0, 32884846>>, <<0, 30759417>>, <<0, 28768542>>,
      <<0, 26903889>>, <<0, 25157631>>, <<0, 23522413>>, <<0, 21991329>>,
      <<0, 20557889>>, <<0, 19216001>>, <<0, 17959943>>, <<0, 16784344>>,
      <<0, 15684158>>, <<0, 14654651>>, <<0, 13691379>>, <<0, 12790171>>,
      <<0, 11947112>>, <<0, 11158530>>, <<0, 10420977>>, <<0, 9731221>>,
      <<0, 9086228>>, <<0, 8483154>>, <<0, 7919332>>, <<0, 7392258>>,
      <<0, 6899587>>, <<0, 6439120>>, <<0, 6008794>>, <<0, 5606677>>,
      <<0, 5230958>>, <<0, 4879937>>, <<0, 4552026>>, <<0, 4245732>>,
      <<0, 3959659>>, <<0, 3692499>>, <<0, 3443027>>, <<0, 3210095>>,
      <<0, 2992628>>, <<0, 2789619>>, <<0, 2600127>>, <<0, 2423269>>,
      <<0, 2258218>>, <<0, 2104203>>, <<0, 1960500>>, <<0, 1826431>>,
      <<0, 1701364>>, <<0, 1584705>>, <<0, 1475900>>, <<0, 1374431>>,
      <<0, 1279813>>, <<0, 1191591>>, <<0, 1109341>>, <<0, 1032668>>,
      <<0, 961199>>, <<0, 894589>>, <<0, 832513>>, <<0, 774668>>,
      <<0, 720772>>, <<0, 670560>>, <<0, 623784>>, <<0, 580215>>,
      <<0, 539635>>, <<0, 501845>>, <<0, 466655>>, <<0, 433890>>,
      <<0, 403385>>, <<0, 374989>>, <<0, 348557>>, <<0, 323957>>,
      <<0, 301063>>, <<0, 279759>>, <<0, 259938>>, <<0, 241497>>,
      <<0, 224342>>, <<0, 208386>>, <<0, 193545>>, <<0, 179744>>,
      <<0, 166910>>, <<0, 154978>>, <<0, 143884>>, <<0, 133571>>,
      <<0, 123985>>, <<0, 115076>>, <<0, 106797>>, <<0, 99103>>,
      <<0, 91955>>, <<0, 85314>>, <<0, 79145>>, <<0, 73414>>,
      <<0, 68092>>, <<0, 63150>>, <<0, 58560>>, <<0, 54299>>,
      <<0, 50343>>, <<0, 46670>>, <<0, 43261>>, <<0, 40097>>,
      <<0, 37161>>, <<0, 34437>>, <<0, 31909>>, <<0, 29564>>,
      <<0, 27388>>, <<0, 25370>>, <<0, 23499>>, <<0, 21763>>,
      <<0, 20153>>, <<0, 18661>>, <<0, 17278>>, <<0, 15995>>,
      <<0, 14807>>, <<0, 13705>>, <<0, 12684>>, <<0, 11738>>,
      <<0, 10861>>, <<0, 10049>>, <<0, 9297>>, <<0, 8600>>,
      <<0, 7954>>, <<0, 7357>>, <<0, 6803>>, <<0, 6291>>,
      <<0, 5816>>, <<0, 5377>>, <<0, 4971>>, <<0, 4595>>,
      <<0, 4246>>, <<0, 3924>>, <<0, 3626>>, <<0, 3350>>,
      <<0, 3095>>, <<0, 2859>>, <<0, 2641>>, <<0, 2439>>,
      <<0, 2253>>, <<0, 2080>>, <<0, 1921>>, <<0, 1773>>,
      <<0, 1637>>, <<0, 1511>>, <<0, 1395>>, <<0, 1287>>,
      <<0, 1188>>, <<0, 1096>>, <<0, 1011>>, <<0, 933>>,
      <<0, 860>>, <<0, 793>>, <<0, 732>>, <<0, 675>>,
      <<0, 622>>, <<0, 574>>, <<0, 529>>, <<0, 487>>,
      <<0, 449>>, <<0, 414>>, <<0, 381>>, <<0, 351>>,
      <<0, 324>>, <<0, 298>>, <<0, 275>>, <<0, 253>>,
      <<0, 233>>, <<0, 215>>, <<0, 198>>, <<0, 182>>,
      <<0, 168>>, <<0, 154>>, <<0, 142>>, <<0, 131>>,
      <<0, 120>>, <<0, 111>>, <<0, 102>>, <<0, 94>>,
      <<0, 86>>, <<0, 79>>, <<0, 73>>, <<0, 67>>,
      <<0, 62>>, <<0, 57>>, <<0, 52>>, <<0, 48>>,
      <<0, 44>>, <<0, 40>>, <<0, 37>>, <<0, 34>>,
      <<0, 31>>, <<0, 29>>, <<0, 26>>, <<0, 24>>,
      <<0, 22>>, <<0, 21>>, <<0, 19>>, <<0, 17>>,
      <<0, 16>>, <<0, 15>>, <<0, 13>>, <<0, 12>>,
      <<0, 11>>, <<0, 10>>, <<0, 9>>, <<0, 9>>,
      <<0, 8>>, <<0, 7>>, <<0, 7>>, <<0, 6>>,
      <<0, 6>>, <<0, 5>>, <<0, 5>>, <<0, 4>>,
      <<0, 4>>, <<0, 4>>, <<0, 3>>, <<0, 3>>,
      <<0, 3>>, <<0, 3>>, <<0, 2>>, <<0, 2>>,
      <<0, 2>>, <<0, 2>>, <<0, 2>>, <<0, 2>>,
      <<0, 1>>, <<0, 1>>, <<0, 1>>, <<0, 1>>,
      <<0, 1>>, <<0, 1>>, <<0, 1>>, <<0, 1>>,
      <<0, 1>>, <<0, 1>>, <<0, 1>>, <<0, 1>>,
      <<0, 0>>
   >>

\* 1 - Phi(i/100) for i >= 0
UpperTail(i) ==
    IF i + 1 > Len(SFTable) THEN PZero
    ELSE P(SFTable[i + 1][1], SFTable[i + 1][2])

\* scipy.special.ndtr: Phi(x); Phi(-inf) = 0, Phi(inf) = 1, Phi(nan) = nan
ndtr(x) ==
    IF x.k = "nan" THEN PNaN
    ELSE IF x.k = "inf" THEN (IF x.v > 0 THEN POne ELSE PZero)
    ELSE IF x.v <= 0 THEN UpperTail(-x.v)
    ELSE PSub(POne, UpperTail(x.v))

\* stats.norm.cdf(x)
norm_cdf(x) == ndtr(x)

\* stats.norm.sf(x) = ndtr(-x)
norm_sf(x) == ndtr(ENeg(x))

RECURSIVE FirstLe(_, _, _)
\* the least i in lo..hi with UpperTail(i) <= q (UpperTail(hi) <= q is given)
FirstLe(q, lo, hi) ==
    IF lo = hi THEN lo
    ELSE LET mid == (lo + hi) \div 2
         IN  IF PLe(UpperTail(mid), q) THEN FirstLe(q, lo, mid)
             ELSE FirstLe(q, mid + 1, hi)

\* for 0 < q <= 1/2: the i whose tail 1 - Phi(i/100) is nearest to q
NearestIdx(q) ==
    LET i == FirstLe(q, 0, Len(SFTable) - 1)
    IN  IF i > 0 /\ PLt(PSub(UpperTail(i - 1), q), PSub(q, UpperTail(i)))
        THEN i - 1 ELSE i

\* stats.norm.isf(q): the z with sf(z) = q, to the resolution of the z scale;
\* isf(0) = inf, isf(1) = -inf, nan outside [0, 1]; no exception
norm_isf(q) ==
    IF q.k = "nan" \/ PLt(q, PZero) \/ PLt(POne, q) THEN NaN
    ELSE IF q = PZero THEN PosInf
    ELSE IF q = POne THEN NegInf
    ELSE IF PLe(q, PHalf(POne)) THEN Fin(NearestIdx(q))
    ELSE Fin(-NearestIdx(PSub(POne, q)))

-----------------------------------------------------------------------------
(* analytic_power, line by line *)

\* sigma=1.0 (line 70)
DefaultSigma == 1 * Scale

\* line 72 with the halving forgotten: isf(p_thr)
ZCut_no_half(p) == norm_isf(p)

\* line 72 with ppf for isf: the lower quantile, -z_cut
ZCut_ppf(p) == ENeg(norm_isf(PHalf(p)))

\* line 72: z_cut = stats.norm.isf(p_thr / 2.0)
ZCut(p) == norm_isf(PHalf(p))

\* line 73 without the factor 2: maf * (1 - maf)
VarG_no_two(m) == m * (Scale - m)

\* line 73 without the factor maf: (1 - maf) / 2
VarG_falling(m) == (Scale - m) * (Scale \div 2)

\* line 73: var_g = 2.0 * maf * (1.0 - maf), in 1/Scale^2
VarG(m) == 2 * m * (Scale - m)

\* line 74 dividing by the root: beta / np.sqrt(n * var_g) / sigma
Ncp_inverse_root(b, nn, vg, s) ==
    LET root == np_sqrt(nn * vg)
    IN  IF root.k = "nan" THEN NaN
        ELSE IF root.v = 0 \/ s = 0
             THEN (IF b = 0 THEN NaN ELSE IF b > 0 THEN PosInf ELSE NegInf)
        ELSE Fin(RoundDiv(1000 * Scale * b, root.v * s))

\* line 74 without the square root: beta * (n * var_g) / sigma
Ncp_no_sqrt(b, nn, vg, s) ==
    IF s = 0 THEN NaN ELSE Fin(RoundDiv(b * ((nn * vg) \div Scale), s))

\* line 74 multiplying by sigma: beta * np.sqrt(n * var_g) * sigma
Ncp_times_sigma(b, nn, vg, s) ==
    LET root == np_sqrt(nn * vg)
    IN  IF root.k = "nan" THEN NaN
        ELSE Fin(RoundDiv(RoundDiv(b * root.v, 10 * Scale) * s, Scale))

\* line 74 with + for *: beta * np.sqrt(n + var_g) / sigma
Ncp_sum_root(b, nn, vg, s) == FDiv(FMul(b, np_sqrt(nn * Scale * Scale + vg)), s)

\* line 74: ncp = beta * np.sqrt(n * var_g) / sigma
Ncp(b, nn, vg, s) == FDiv(FMul(b, np_sqrt(nn * vg)), s)

\* line 75 with sf for cdf in the second term
Power_sf_twice(zc, c) == PAdd(norm_sf(ESub(zc, c)), norm_sf(ESub(ENeg(zc), c)))

\* line 75 with the lower tail forgotten: a one-sided test
Power_upper_only(zc, c) == norm_sf(ESub(zc, c))

\* line 75 with the sign of ncp slipped in the second term: cdf(-z_cut + ncp)
Power_sign_slip(zc, c) ==
    PAdd(norm_sf(ESub(zc, c)), norm_cdf(ESub(ENeg(zc), ENeg(c))))

\* line 75: stats.norm.sf(z_cut - ncp) + stats.norm.cdf(-z_cut - ncp)
Power(zc, c) == PAdd(norm_sf(ESub(zc, c)), norm_cdf(ESub(ENeg(zc), c)))

\* lines 70-75: the value a call returns
analytic_power(nn, m, b, p, s) == Power(ZCut(p), Ncp(b, nn, VarG(m), s))

-----------------------------------------------------------------------------
(* The calls made *)

\* n = 1800 (line 86)
n_demo == 1800

\* maf_fixed = 0.20 (line 90)
maf_fixed == 20

\* beta_fixed = 0.15 (line 112)
beta_fixed == 15

\* p_thr = 6e-8 (line 87)
p_thr_demo == P(60, 0)

MaxNDiv == 2

MaxBetaIdx == 3

MaxZIdx == 3

\* sample sizes: 1800 and its quotients
Ns == {n_demo \div d : d \in 1..MaxNDiv}

\* minor allele frequencies 0.01, 0.20, 0.35, 0.50
Mafs == {1, maf_fixed, 35, 50}

\* effect sizes: multiples of 0.08 (0.24 among them), +-0.15, +-10.0
Betas ==
    {8 * i : i \in -MaxBetaIdx..MaxBetaIdx}
        \cup {beta_fixed, -beta_fixed} \cup {10 * Scale, -10 * Scale}

\* thresholds inside (0, 1): 6e-8, and the two-sided tail areas of the critical
\* values 1.37, 2.74, ... (0.17, 0.0061, 0.00004, ...)
ValidPThrs ==
    {p_thr_demo}
        \cup {PAdd(UpperTail(137 * i), UpperTail(137 * i)) : i \in 1..MaxZIdx}

\* thresholds outside (0, 1): 1.5
InvalidPThrs == {P(15 * (Base \div 10), 0)}

PThrs == ValidPThrs \cup InvalidPThrs

\* noise scales 0.5, 1.0, 2.0
Sigmas == {Scale \div 2, Scale, 2 * Scale}

\* arguments outside the documented domain, which line 70 accepts unchecked:
\* n = 0 and n < 0; maf = 0, 0.75, 1 and maf < 0; sigma = 0 and sigma < 0;
\* p_thr = 0, 2 and p_thr < 0 (and 1.5)
OutNs == {0, -n_demo}

OutMafs == {0, 75, Scale, -maf_fixed}

OutSigmas == {0, -Scale}

OutPThrs == InvalidPThrs \cup {PZero, P(2 * Base, 0), P(-(Base \div 2), 0)}

\* effect sizes of the calls made around the notebook's example
SmallBetas == {-beta_fixed, 0, beta_fixed}

NoRet == [outcome |-> "none", value |-> PNaN]

\* n and p_thr are not bound before the Parameters cell has run
NoGlobals == [bound |-> FALSE, n |-> 0, p_thr |-> PZero]

NumThreads == 2

Threads == 1..NumThreads

\* a thread that is not inside analytic_power
IdleFrame ==
    [pc |-> "idle", n |-> 0, maf |-> 0, beta |-> 0, p_thr |-> PZero,
     sigma |-> DefaultSigma, z_cut |-> Unset, var_g |-> Unset, ncp |-> Unset,
     ret |-> NoRet]

Init ==
    /\ pc = "idle"
    /\ n = 0
    /\ maf = 0
    /\ beta = 0
    /\ p_thr = PZero
    /\ sigma = DefaultSigma
    /\ sigma_given = FALSE
    /\ z_cut = Unset
    /\ var_g = Unset
    /\ ncp = Unset
    /\ ret = NoRet
    /\ glob = NoGlobals
    /\ frames = [t \in Threads |-> IdleFrame]
    /\ cell = "none"
    /\ pos = 0
    /\ beta_grid = <<>>
    /\ power_effect = <<>>
    /\ maf_grid = <<>>
    /\ power_maf = <<>>

\* line 70: a caller binds the arguments; sigma takes its default when omitted
Call(nn, m, b, p, given, s) ==
    /\ pc = "idle"
    /\ n' = nn
    /\ maf' = m
    /\ beta' = b
    /\ p_thr' = p
    /\ sigma' = IF given THEN s ELSE DefaultSigma
    /\ sigma_given' = given
    /\ z_cut' = Unset
    /\ var_g' = Unset
    /\ ncp' = Unset
    /\ ret' = NoRet
    /\ pc' = "L72"
    /\ UNCHANGED <<threads, sweep>>

Line72 ==
    /\ pc = "L72"
    /\ z_cut' = ZCut(p_thr)
    /\ pc' = "L73"
    /\ UNCHANGED <<n, maf, beta, p_thr, sigma, sigma_given, var_g, ncp, ret>>
    /\ UNCHANGED <<threads, sweep>>

Line73 ==
    /\ pc = "L73"
    /\ var_g' = Fin(VarG(maf))
    /\ pc' = "L74"
    /\ UNCHANGED <<n, maf, beta, p_thr, sigma, sigma_given, z_cut, ncp, ret>>
    /\ UNCHANGED <<threads, sweep>>

Line74 ==
    /\ pc = "L74"
    /\ ncp' = Ncp(beta, n, var_g.v, sigma)
    /\ pc' = "L75"
    /\ UNCHANGED <<n, maf, beta, p_thr, sigma, sigma_given, z_cut, var_g, ret>>
    /\ UNCHANGED <<threads, sweep>>

\* line 75: the sum is returned; nothing in lines 70-75 raises
Line75 ==
    /\ pc = "L75"
    /\ ret' = [outcome |-> "returned", value |-> Power(z_cut, ncp)]
    /\ pc' = "done"
    /\ UNCHANGED <<n, maf, beta, p_thr, sigma, sigma_given, z_cut, var_g, ncp>>
    /\ UNCHANGED <<threads, sweep>>

\* the caller takes the value; the frame (arguments and locals) is gone
Return ==
    /\ pc = "done"
    /\ cell = "none"
    /\ UNCHANGED <<threads, sweep>>
    /\ pc' = "idle"
    /\ n' = 0
    /\ maf' = 0
    /\ beta' = 0
    /\ p_thr' = PZero
    /\ sigma' = DefaultSigma
    /\ sigma_given' = FALSE
    /\ z_cut' = Unset
    /\ var_g' = Unset
    /\ ncp' = Unset
    /\ ret' = NoRet

CallGiven ==
    /\ cell = "none"
    /\ \E nn \in Ns, m \in Mafs, b \in Betas, p \in PThrs, s \in Sigmas :
           Call(nn, m, b, p, TRUE, s)

CallDefault ==
    /\ cell = "none"
    /\ \E nn \in Ns, m \in Mafs, b \in Betas, p \in PThrs :
           Call(nn, m, b, p, FALSE, DefaultSigma)

\* calls around the notebook's example with at least one argument outside the
\* documented domain
CallOutOfDomain ==
    /\ pc = "idle"
    /\ cell = "none"
    /\ \E nn \in {n_demo} \cup OutNs, m \in {maf_fixed} \cup OutMafs, b \in SmallBetas,
          p \in {p_thr_demo} \cup OutPThrs, s \in {Scale} \cup OutSigmas :
           /\ nn \in OutNs \/ m \in OutMafs \/ p \in OutPThrs \/ s \in OutSigmas
           /\ Call(nn, m, b, p, TRUE, s)

\* calls in the degenerate cases: no samples (n = 0) or a monomorphic variant
\* (maf = 0 or maf = 1), the threshold and the noise scale valid
CallDegenerate ==
    /\ pc = "idle"
    /\ cell = "none"
    /\ \E nn \in Ns \cup {0}, m \in Mafs \cup {0, Scale}, b \in Betas,
          p \in ValidPThrs, s \in Sigmas :
           /\ nn = 0 \/ m \in {0, Scale}
           /\ Call(nn, m, b, p, TRUE, s)

Next ==
    \/ CallGiven \/ CallDefault \/ CallOutOfDomain \/ CallDegenerate
    \/ Line72 \/ Line73 \/ Line74 \/ Line75 \/ Return

Spec == Init /\ [][Next]_vars

-----------------------------------------------------------------------------
(* Concurrent calls: each thread runs lines 72-75 on its own frame, the     *)
(* statements of different threads interleaved in any order, while the      *)
(* notebook's module-level n and p_thr may be rebound at any time.          *)

\* the arguments the threads pass
ThreadArgs ==
    { [n |-> n_demo, maf |-> maf_fixed, beta |-> beta_fixed,
       p_thr |-> p_thr_demo, sigma |-> Scale],
      [n |-> n_demo \div 2, maf |-> maf_fixed, beta |-> -24,
       p_thr |-> p_thr_demo, sigma |-> Scale],
      [n |-> n_demo, maf |-> 50, beta |-> 24,
       p_thr |-> PAdd(UpperTail(137), UpperTail(137)), sigma |-> Scale \div 2],
      [n |-> n_demo, maf |-> 1, beta |-> 10 * Scale,
       p_thr |-> p_thr_demo, sigma |-> 2 * Scale] }

\* the values the Parameters cell (lines 86-87) may bind to n and p_thr
GlobalChoices ==
    { [bound |-> TRUE, n |-> n_demo, p_thr |-> p_thr_demo],
      [bound |-> TRUE, n |-> 2 * n_demo, p_thr |-> PHalf(POne)] }

\* arguments and locals kept in one module-level frame that every thread uses
Local_shared(t) == frames[1]

\* the names n, maf, beta, p_thr, sigma, z_cut, var_g, ncp in a statement of
\* thread t are the parameters and locals of t's own call (lines 70-75)
Local(t) == frames[t]

TCall(t, a) ==
    /\ frames[t].pc = "idle"
    /\ frames' = [frames EXCEPT ![t] =
                      [IdleFrame EXCEPT !.pc = "L72", !.n = a.n, !.maf = a.maf,
                                        !.beta = a.beta, !.p_thr = a.p_thr,
                                        !.sigma = a.sigma]]
    /\ UNCHANGED <<glob, frame, sweep>>

TLine72(t) ==
    /\ frames[t].pc = "L72"
    /\ frames' = [frames EXCEPT ![t].z_cut = ZCut(Local(t).p_thr), ![t].pc = "L73"]
    /\ UNCHANGED <<glob, frame, sweep>>

TLine73(t) ==
    /\ frames[t].pc = "L73"
    /\ frames' = [frames EXCEPT ![t].var_g = Fin(VarG(Local(t).maf)), ![t].pc = "L74"]
    /\ UNCHANGED <<glob, frame, sweep>>

TLine74(t) ==
    /\ frames[t].pc = "L74"
    /\ frames' = [frames EXCEPT
                      ![t].ncp = Ncp(Local(t).beta, Local(t).n, Local(t).var_g.v,
                                     Local(t).sigma),
                      ![t].pc = "L75"]
    /\ UNCHANGED <<glob, frame, sweep>>

TLine75(t) ==
    /\ frames[t].pc = "L75"
    /\ frames' = [frames EXCEPT
                      ![t].ret = [outcome |-> "returned",
                                  value |-> Power(Local(t).z_cut, Local(t).ncp)],
                      ![t].pc = "done"]
    /\ UNCHANGED <<glob, frame, sweep>>

\* the caller takes the value; the thread's frame is gone
TReturn(t) ==
    /\ frames[t].pc = "done"
    /\ frames' = [frames EXCEPT ![t] = IdleFrame]
    /\ UNCHANGED <<glob, frame, sweep>>

\* lines 86-87 run (again, possibly edited) while calls are in progress
RebindGlobals ==
    /\ \E g \in GlobalChoices : g # glob /\ glob' = g
    /\ UNCHANGED <<frames, frame, sweep>>

ThreadCall == \E t \in Threads, a \in ThreadArgs : TCall(t, a)

ThreadStep ==
    \E t \in Threads :
        TLine72(t) \/ TLine73(t) \/ TLine74(t) \/ TLine75(t) \/ TReturn(t)

ThreadNext == ThreadCall \/ ThreadStep \/ RebindGlobals

SpecThreads == Init /\ [][ThreadNext]_vars

-----------------------------------------------------------------------------
(* The two sweeps: the Parameters cell (lines 86-92) and the MAF cell       *)
(* (lines 111-114), run in this order.  The list comprehensions call        *)
(* analytic_power once per grid point and collect the returned values.      *)

CeilDiv(a, b) == (a + b - 1) \div b

\* np.arange with the stop value included when the steps reach it or pass it
\* by less than one step
arange_inclusive(start, stop, step) ==
    [j \in 1..((stop - start) \div step + 1) |-> start + (j - 1) * step]

\* np.arange counting from zero whatever the start
arange_from_zero(start, stop, step) ==
    [j \in 1..CeilDiv(stop, step) |-> (j - 1) * step]

\* np.arange(start, stop, step): ceil((stop - start) / step) values
\* start, start + step, ..., the stop value excluded (hundredths)
arange(start, stop, step) ==
    [j \in 1..CeilDiv(stop - start, step) |-> start + (j - 1) * step]

InSweep == cell \in {"effect", "maf"}

\* lines 86-91: n, p_thr, maf_fixed and beta_grid are bound; line 92 starts
StartEffect ==
    /\ cell = "none"
    /\ pc = "idle"
    /\ glob' = [bound |-> TRUE, n |-> n_demo, p_thr |-> p_thr_demo]
    /\ beta_grid' = arange(0, 41, 2)
    /\ power_effect' = <<>>
    /\ pos' = 1
    /\ cell' = "effect"
    /\ UNCHANGED <<frame, frames, maf_grid, power_maf>>

\* line 92 / line 114: the next element of the grid is passed to analytic_power
SweepCall ==
    /\ InSweep
    /\ pc = "idle"
    /\ IF cell = "effect"
       THEN /\ pos <= Len(beta_grid)
            /\ Call(glob.n, maf_fixed, beta_grid[pos], glob.p_thr, FALSE, DefaultSigma)
       ELSE /\ pos <= Len(maf_grid)
            /\ Call(glob.n, maf_grid[pos], beta_fixed, glob.p_thr, FALSE, DefaultSigma)

\* line 92 / line 114: the returned value is collected, the loop moves on
SweepReturn ==
    /\ InSweep
    /\ pc = "done"
    /\ ret.outcome = "returned"
    /\ IF cell = "effect"
       THEN /\ power_effect' = Append(power_effect, ret.value)
            /\ UNCHANGED power_maf
       ELSE /\ power_maf' = Append(power_maf, ret.value)
            /\ UNCHANGED power_effect
    /\ pos' = pos + 1
    /\ pc' = "idle"
    /\ n' = 0
    /\ maf' = 0
    /\ beta' = 0
    /\ p_thr' = PZero
    /\ sigma' = DefaultSigma
    /\ sigma_given' = FALSE
    /\ z_cut' = Unset
    /\ var_g' = Unset
    /\ ncp' = Unset
    /\ ret' = NoRet
    /\ UNCHANGED <<threads, cell, beta_grid, maf_grid>>

\* line 92 is complete; lines 94-101 plot power_effect
EndEffect ==
    /\ cell = "effect"
    /\ pc = "idle"
    /\ pos > Len(beta_grid)
    /\ cell' = "between"
    /\ UNCHANGED <<frame, threads, pos, beta_grid, power_effect, maf_grid, power_maf>>

\* lines 111-113: beta_fixed and maf_grid are bound; line 114 starts
StartMaf ==
    /\ cell = "between"
    /\ maf_grid' = arange(1, 51, 2)
    /\ power_maf' = <<>>
    /\ pos' = 1
    /\ cell' = "maf"
    /\ UNCHANGED <<frame, threads, beta_grid, power_effect>>

\* line 114 is complete; the following lines plot power_maf
EndMaf ==
    /\ cell = "maf"
    /\ pc = "idle"
    /\ pos > Len(maf_grid)
    /\ cell' = "end"
    /\ UNCHANGED <<frame, threads, pos, beta_grid, power_effect, maf_grid, power_maf>>

SweepNext ==
    \/ StartEffect
    \/ SweepCall
    \/ SweepReturn
    \/ EndEffect
    \/ StartMaf
    \/ EndMaf

\* the statements of a cell that has started
CellRuns ==
    /\ cell \in {"effect", "between", "maf"}
    /\ Line72 \/ Line73 \/ Line74 \/ Line75 \/ SweepNext

\* a cell that has started runs on: the kernel executes its statements one
\* after the other
SpecSweep == Init /\ [][Next \/ SweepNext]_vars /\ WF_vars(CellRuns)

-----------------------------------------------------------------------------
(* The documented contract *)

Abs(x) == IF x < 0 THEN -x ELSE x

\* the call has run line 75
Done == pc = "done"

\* the inputs are in the documented domain:
\* n > 0, maf in (0, 0.5], p_thr in (0, 1), sigma > 0
Valid ==
    /\ n > 0
    /\ maf >= 1 /\ 2 * maf <= Scale
    /\ PLt(PZero, p_thr) /\ PLt(p_thr, POne)
    /\ sigma > 0

\* the call returned a finite number
Finite == ret.outcome = "returned" /\ ret.value.k = "fin"

\* the tolerance 1e-9
Tol == P(1, 0)

\* C1: for every valid input the returned power is a number in [0, 1].
C1_PowerInUnitInterval ==
    (Done /\ Valid) =>
        /\ Finite
        /\ PLe(PZero, ret.value)
        /\ PLe(ret.value, POne)

\* C1 witness: a valid call with a huge effect returns exactly 1, the upper end.
C1_Witness == Done /\ Valid /\ beta = 10 * Scale /\ ret.value = POne

\* C2: with beta = 0 the returned power equals p_thr within 1e-9.
C2_NullPowerIsThreshold ==
    (Done /\ Valid /\ beta = 0) =>
        /\ Finite
        /\ PLe(PDist(ret.value, p_thr), Tol)

\* C2 witness: n=1800, maf=0.20, beta=0, p_thr=6e-8 returns 5.96e-8,
\* which is 6e-8 to 4e-10 (the critical value is 5.42 on the z scale).
C2_Witness ==
    /\ Done /\ Valid /\ beta = 0
    /\ n = n_demo /\ maf = maf_fixed /\ p_thr = p_thr_demo
    /\ ret.value = P(59, 599035422)

\* C3: the returned power is the power of the opposite effect -beta.
C3_SymmetricInBeta ==
    (Done /\ Valid) =>
        ret.value = analytic_power(n, maf, -beta, p_thr, sigma)

\* C3 witness: beta = -0.24 at n=1800, maf=0.20, p_thr=6e-8, sigma=1 returns
\* 0.633, strictly inside (0, 1).
C3_Witness ==
    /\ Done /\ Valid /\ beta = -24
    /\ n = n_demo /\ maf = maf_fixed /\ p_thr = p_thr_demo /\ sigma = Scale
    /\ ret.value = P(633071736, 36028055)

\* C4: the returned power is no greater than the power of any effect of equal or
\* larger magnitude, of either sign, the other inputs fixed.
C4_MonotoneInAbsBeta ==
    (Done /\ Valid) =>
        \A b2 \in Betas :
            Abs(beta) <= Abs(b2) =>
                PLe(ret.value, analytic_power(n, maf, b2, p_thr, sigma))

\* C4 witness: a call with beta = 0.08 whose power is strictly below that of a
\* larger effect of the opposite sign.
C4_Witness ==
    /\ Done /\ Valid /\ beta = 8
    /\ \E b2 \in Betas :
           /\ b2 < 0 /\ Abs(b2) > Abs(beta)
           /\ PLt(ret.value, analytic_power(n, maf, b2, p_thr, sigma))

\* C5: the returned power is no greater than the power at any larger sample
\* size, the other inputs fixed.
C5_MonotoneInN ==
    (Done /\ Valid) =>
        \A n2 \in Ns :
            n <= n2 =>
                PLe(ret.value, analytic_power(n2, maf, beta, p_thr, sigma))

\* C5 witness: a call with a negative effect whose power is strictly below the
\* power at a larger sample size.
C5_Witness ==
    /\ Done /\ Valid /\ beta < 0
    /\ \E n2 \in Ns :
           /\ n < n2
           /\ PLt(ret.value, analytic_power(n2, maf, beta, p_thr, sigma))

\* C6: the returned power is no greater than the power at any looser threshold
\* in (0, 1), the other inputs fixed.
C6_MonotoneInPThr ==
    (Done /\ Valid) =>
        \A p2 \in ValidPThrs :
            PLe(p_thr, p2) =>
                PLe(ret.value, analytic_power(n, maf, beta, p2, sigma))

\* C6 witness: a call at p_thr = 6e-8 whose power is strictly below the power at
\* a looser threshold, which has a smaller critical value.
C6_Witness ==
    /\ Done /\ Valid /\ p_thr = p_thr_demo /\ beta = beta_fixed
    /\ \E p2 \in ValidPThrs :
           /\ PLt(p_thr, p2)
           /\ ZCut(p2).v < z_cut.v
           /\ PLt(ret.value, analytic_power(n, maf, beta, p2, sigma))

\* The notebook's Method cell (lines 42-54), for noise N(0, 1):
\*   Var(g) = 2 MAF (1 - MAF),  lambda = beta sqrt(N Var(g)),
\*   Power = Phi(-z + lambda) + [1 - Phi(z + lambda)],  z the upper p_thr/2 quantile
DocPower(nn, m, b, p) ==
    LET z      == norm_isf(PHalf(p))
        root   == np_sqrt(nn * (2 * m * (Scale - m)))
        lambda == Fin(RoundDiv(b * root.v, 10 * Scale))
    IN  PAdd(ndtr(ESub(lambda, z)),
             PSub(POne, ndtr(ESub(lambda, ENeg(z)))))

\* C7: a finished call has computed the specified steps: z_cut is the inverse
\* survival function at p_thr/2, var_g is 2*maf*(1-maf), ncp is
\* beta*sqrt(n*var_g) divided by sigma, sigma is 1.0 when the caller omitted it,
\* and for valid inputs with sigma = 1 the value returned is the Method cell's
\* Phi(-z + lambda) + [1 - Phi(z + lambda)].
C7_ComputesDocumentedFormula ==
    Done =>
        /\ ret.outcome = "returned"
        /\ (~sigma_given => sigma = Scale)
        /\ z_cut = norm_isf(PHalf(p_thr))
        /\ var_g = Fin(2 * maf * (Scale - maf))
        /\ ncp = FDiv(FMul(beta, np_sqrt(n * var_g.v)), sigma)
        /\ ret.value = PAdd(norm_sf(ESub(z_cut, ncp)), norm_cdf(ESub(ENeg(z_cut), ncp)))
        /\ (Valid /\ sigma = Scale) => ret.value = DocPower(n, maf, beta, p_thr)

\* C7 witness: a valid call that omitted sigma, with beta = 0.15, returns the
\* Method cell's value, strictly inside (0, 1).
C7_Witness ==
    /\ Done /\ Valid /\ ~sigma_given /\ beta = beta_fixed
    /\ ret.value = DocPower(n, maf, beta, p_thr)
    /\ PLt(PZero, ret.value) /\ PLt(ret.value, POne)

\* the inputs n=1800, maf=0.20, p_thr=6e-8, sigma=1 of the notebook's example
DemoInputs ==
    n = n_demo /\ maf = maf_fixed /\ p_thr = p_thr_demo /\ sigma = Scale

C9_PowerAtBeta015 ==
    (Done /\ DemoInputs /\ beta = beta_fixed) =>
        /\ Finite
        /\ PLt(PZero, ret.value)
        /\ PLt(ret.value, PHalf(POne))

\* C9 witness: that call returns 0.034379502, with ncp = 3.60.
C9_Witness ==
    /\ Done /\ DemoInputs /\ beta = beta_fixed
    /\ ncp = Fin(360)
    /\ ret.value = P(34379502, 445889997)

\* C10: a call with p_thr outside (0, 1) raises a DomainError and returns no
\* number.
C10_RaisesOnPThrOutOfRange ==
    (Done /\ ~(PLt(PZero, p_thr) /\ PLt(p_thr, POne))) =>
        /\ ret.outcome = "raised"
        /\ ret.value.k # "fin"

\* C11: a call (its p_thr inside (0, 1); outside is C10) either returns a
\* probability in [0, 1], its inputs valid, or reports a domain error: with maf
\* outside (0, 0.5], sigma <= 0 or n <= 0 it raises and returns no number.
C11_ProbabilityOrDomainError ==
    (Done /\ PLt(PZero, p_thr) /\ PLt(p_thr, POne)) =>
        IF Valid
        THEN Finite /\ PLe(PZero, ret.value) /\ PLe(ret.value, POne)
        ELSE ret.outcome = "raised" /\ ret.value.k # "fin"

\* the degenerate cases: maf = 0, maf = 1 or n = 0, with p_thr in (0, 1) and
\* sigma > 0
Degenerate ==
    /\ maf = 0 \/ maf = Scale \/ n = 0
    /\ PLt(PZero, p_thr) /\ PLt(p_thr, POne)
    /\ sigma > 0

\* C12: in a degenerate case, whatever beta, ncp is 0 and the call returns the
\* null-case power: the value a valid call with beta = 0 returns at the same
\* threshold, which is p_thr (within 1e-9).
C12_DegenerateIsNullPower ==
    (Done /\ Degenerate) =>
        /\ Finite
        /\ ncp = Fin(0)
        /\ ret.value = analytic_power(n_demo, maf_fixed, 0, p_thr, Scale)
        /\ PLe(PDist(ret.value, p_thr), Tol)

\* C12 witness: maf = 1 with the huge effect beta = -10 returns the threshold
\* itself (0.17, whose critical value 1.37 is on the z scale).
C12_Witness ==
    /\ Done /\ Degenerate /\ maf = Scale /\ n = n_demo /\ beta = -10 * Scale
    /\ z_cut = Fin(137)
    /\ ret.value = p_thr

\* the value thread t's call returns when it runs alone
Alone(t) ==
    analytic_power(frames[t].n, frames[t].maf, frames[t].beta, frames[t].p_thr,
                   frames[t].sigma)

\* C13: every call is independent: whatever the interleaving with the other
\* threads' calls and with rebindings of the module-level n and p_thr, a
\* thread's locals and returned value are those of its own five arguments,
\* the value the call returns when run alone.
C13_CallsAreIndependent ==
    \A t \in Threads :
        /\ frames[t].pc \in {"L73", "L74", "L75", "done"} =>
               frames[t].z_cut = ZCut(frames[t].p_thr)
        /\ frames[t].pc \in {"L74", "L75", "done"} =>
               frames[t].var_g = Fin(VarG(frames[t].maf))
        /\ frames[t].pc = "done" =>
               /\ frames[t].ret.outcome = "returned"
               /\ frames[t].ret.value = Alone(t)

\* C13 witness: thread 2 has returned 0.0344 for n=1800, maf=0.20, beta=0.15
\* while thread 1 is in the middle of a call with maf=0.50 and the
\* module-level n and p_thr are bound to other values than thread 2's.
C13_Witness ==
    /\ frames[1].pc = "L74" /\ frames[1].n = n_demo /\ frames[1].maf = 50
    /\ frames[2].pc = "done" /\ frames[2].n = n_demo /\ frames[2].beta = beta_fixed
    /\ frames[2].ret.value = P(34379502, 445889997)
    /\ glob.bound /\ glob.n # frames[2].n /\ glob.p_thr # frames[2].p_thr

\* the grid is evenly spaced with step 0.02 from lo to hi (hundredths)
RunsFromTo(grid, lo, hi) ==
    /\ Len(grid) >= 1
    /\ grid[1] = lo
    /\ grid[Len(grid)] = hi
    /\ \A j \in 1..(Len(grid) - 1) : grid[j + 1] = grid[j] + 2

\* the k-th collected value is the power at the k-th grid point
PairedEffect(k) ==
    power_effect[k] = analytic_power(n_demo, maf_fixed, beta_grid[k], p_thr_demo, Scale)

PairedMaf(k) ==
    power_maf[k] = analytic_power(n_demo, maf_grid[k], beta_fixed, p_thr_demo, Scale)

\* the sweeps' grids and results, the MAF grid ending at mafEnd
SweepsCover(mafEnd) ==
    /\ cell \in {"effect", "between", "maf", "end"} =>
           /\ RunsFromTo(beta_grid, 0, 40)
           /\ Len(power_effect) <= Len(beta_grid)
           /\ \A k \in 1..Len(power_effect) : PairedEffect(k)
    /\ cell = "effect" =>
           /\ Len(power_effect) = pos - 1
           /\ pc # "idle" =>
                  /\ n = n_demo /\ maf = maf_fixed /\ p_thr = p_thr_demo
                  /\ beta = beta_grid[pos]
    /\ cell \in {"between", "maf", "end"} => Len(power_effect) = Len(beta_grid)
    /\ cell \in {"maf", "end"} =>
           /\ RunsFromTo(maf_grid, 1, mafEnd)
           /\ Len(power_maf) <= Len(maf_grid)
           /\ \A k \in 1..Len(power_maf) : PairedMaf(k)
    /\ cell = "maf" =>
           /\ Len(power_maf) = pos - 1
           /\ pc # "idle" =>
                  /\ n = n_demo /\ beta = beta_fixed /\ p_thr = p_thr_demo
                  /\ maf = maf_grid[pos]
    /\ cell = "end" => Len(power_maf) = Len(maf_grid)

\* C14 as stated: each sweep yields one (parameter, power) pair per grid
\* point, in increasing order, step 0.02, the effect grid from 0.00 to 0.40 at
\* n=1800, maf=0.20, p_thr=6e-8 and the MAF grid from 0.01 to 0.50 at n=1800,
\* beta=0.15, p_thr=6e-8.
C14_AsStated == SweepsCover(50)

\* C14: each sweep yields one (parameter, power) pair per grid point, in
\* increasing order, step 0.02, the effect grid from 0.00 to 0.40 (21 points)
\* at n=1800, maf=0.20, p_thr=6e-8 and the MAF grid from 0.01 to 0.49
\* (25 points, 0.50 is not on it) at n=1800, beta=0.15, p_thr=6e-8.
C14_SweepsCoverGrids ==
    /\ SweepsCover(49)
    /\ cell # "none" => Len(beta_grid) = 21
    /\ cell \in {"maf", "end"} => Len(maf_grid) = 25

\* C14 witness: both sweeps are complete, 21 and 25 results, the 13th effect
\* result the power 0.633 at beta = 0.24 and the last MAF point 0.49.
C14_Witness ==
    /\ cell = "end"
    /\ Len(power_effect) = 21 /\ Len(power_maf) = 25
    /\ beta_grid[13] = 24 /\ power_effect[13] = P(633071736, 36028055)
    /\ maf_grid[25] = 49 /\ PairedMaf(25)

NonDecreasing(seq) ==
    \A j \in 1..(Len(seq) - 1) : PLe(seq[j], seq[j + 1])

\* C15: for valid n, beta, p_thr, sigma the returned power is no greater than
\* the power at any larger maf up to 0.5, and so the power_maf sequence is
\* non-decreasing along the MAF grid, as power_effect is along the beta grid.
C15_MonotoneInMaf ==
    /\ (Done /\ Valid) =>
           \A m2 \in Mafs :
               maf <= m2 =>
                   PLe(ret.value, analytic_power(n, m2, beta, p_thr, sigma))
    /\ NonDecreasing(power_maf)
    /\ NonDecreasing(power_effect)

\* C15 witness: the MAF sweep is complete and its last power is strictly above
\* its first, the effect sweep's last strictly above its first.
C15_Witness ==
    /\ cell = "end"
    /\ Len(power_maf) = Len(maf_grid)
    /\ PLt(power_maf[1], power_maf[Len(power_maf)])
    /\ PLt(power_maf[12], power_maf[13])
    /\ PLt(power_effect[1], power_effect[Len(power_effect)])

\* the arguments of the sweep call in progress are inside the valid domain
SweepArgsValid ==
    (InSweep /\ pc # "idle") =>
        /\ Valid
        /\ n = n_demo /\ p_thr = p_thr_demo /\ sigma = Scale /\ ~sigma_given
        /\ beta \in -10 * Scale .. 10 * Scale

\* no sweep call ends in an error, and a finished loop has one result per
\* grid point
SweepNoError ==
    /\ (InSweep /\ Done) => Finite
    /\ cell \in {"between", "maf", "end"} => Len(power_effect) = Len(beta_grid)
    /\ cell = "end" => Len(power_maf) = Len(maf_grid)

\* C16: at every iteration of both sweeps the arguments passed to
\* analytic_power are valid, no iteration ends in an error, and each loop,
\* once started, terminates with a result list as long as its grid.
C16_SweepsValidAndTerminate ==
    /\ [](SweepArgsValid /\ SweepNoError)
    /\ (cell = "effect") ~> (cell = "between" /\ Len(power_effect) = Len(beta_grid))
    /\ (cell = "maf") ~> (cell = "end" /\ Len(power_maf) = Len(maf_grid))

\* C16 witness: the MAF loop has terminated after the effect loop, each list
\* as long as its grid, the last call made with maf = 0.49.
C16_Witness ==
    /\ cell = "end" /\ pc = "idle"
    /\ pos = Len(maf_grid) + 1
    /\ Len(power_maf) = Len(maf_grid) /\ Len(maf_grid) > 0
    /\ Len(power_effect) = Len(beta_grid) /\ Len(beta_grid) > 0

====
